---- MODULE Spec2Model ----
(***************************************************************************)
(* UnetModel (src/wm/model/unet/unet_model.py): the orchestrator that      *)
(* trains an encoder-decoder against a discriminator.  One train_on_batch  *)
(* call is a discriminator phase followed by a generator phase; one        *)
(* validate_on_batch call is the same computation without any update.      *)
(*                                                                         *)
(* The model keeps the statements of both methods as separate steps (the   *)
(* program counter pc names the source line that runs next), so that the   *)
(* points between two statements and the points where a call raises are    *)
(* states of the model.                                                    *)
(*                                                                         *)
(* Numbers.  A tensor is a sequence of integers.  Pixels and parameters    *)
(* are whole units, decoded message values are quarters (q stands for      *)
(* q/4), a loss is an exact fraction <<numerator, denominator>> and a      *)
(* gradient is an integer in hundredths.                                   *)
(***************************************************************************)
EXTENDS Integers, Sequences, FiniteSets, TLC

\* ------------------------------------------------------------------ bounds

\* The number of train_on_batch / validate_on_batch calls of a run.
MaxCalls == 3

\* ------------------------------------------------------- program constants

\* self.cover_label and self.encoded_label.
cover_label == 1
encoded_label == 0
\* The default of config.get('dec_loss_weight', 1).
dec_loss_weight_default == 1

\* ------------------------------------------------------------- arithmetic

Abs(x) == IF x < 0 THEN -x ELSE x
Sgn(x) == IF x < 0 THEN -1 ELSE IF x > 0 THEN 1 ELSE 0
Max(a, b) == IF a < b THEN b ELSE a
Min(a, b) == IF a < b THEN a ELSE b

RECURSIVE SeqSum(_)
SeqSum(s) == IF s = <<>> THEN 0 ELSE Head(s) + SeqSum(Tail(s))

\* The entries of a batch of vectors, row after row.
RECURSIVE Flatten(_)
Flatten(rows) == IF rows = <<>> THEN <<>> ELSE Head(rows) \o Flatten(Tail(rows))

\* Exact fractions <<n, d>> with d > 0.
RatScale(w, r) == <<w * r[1], r[2]>>
RatAdd(r, s) == <<r[1] * s[2] + s[1] * r[2], r[2] * s[2]>>
RatNonNeg(r) == r[1] >= 0
RatLeqOne(r) == r[1] <= r[2]
RatIsZero(r) == r[1] = 0
RatIsOne(r) == r[1] = r[2]

\* ---------------------------------------------------------- configuration

\* The keys __init__ reads from config.
ConstructorKeys ==
    {"device", "noise", "main_command", "message", "encoder_blocks",
     "decoder_blocks", "decoder_channels", "decoder_block_type",
     "discriminator_channels", "discriminator_blocks"}

\* The keys only train_on_batch and validate_on_batch read.
WeightKeys == {"adv_loss_weight", "enc_loss_weight", "dec_loss_weight"}

\* config['message'] of every configuration of the model.
MessageLength == 2

\* The number of values of one image.
Channels == 1

\* A configuration: a mapping from the keys it has to their values.
MkConfig(keys, adv, enc, dec) ==
    [k \in keys |->
        CASE k = "adv_loss_weight" -> adv
          [] k = "enc_loss_weight" -> enc
          [] k = "dec_loss_weight" -> dec
          [] k = "message" -> MessageLength
          [] OTHER -> 0]

AllKeys == ConstructorKeys \cup WeightKeys

\* The configurations a run may be constructed from: every weight present
\* (positive, or one of them negative), one weight key missing, or a key
\* of the constructor missing.
Configs ==
    {MkConfig(AllKeys, w[1], w[2], w[3]) :
        w \in {<<2, 1, 3>>, <<-1, 1, 1>>}}
    \cup {MkConfig(AllKeys \ {k}, 2, 1, 3) : k \in WeightKeys}
    \cup {MkConfig(AllKeys \ {"device"}, 2, 1, 3)}

HasKey(c, k) == k \in DOMAIN c

\* config.get(k, default).
ConfigGet(c, k, default) == IF HasKey(c, k) THEN c[k] ELSE default

\* ------------------------------------------------------------------ inputs

Pixels == {0, 1}
BatchSizes == {1, 2}

\* The message every image of a batch carries.
MessagePattern == <<1, 0>>

\* The batches of a call: one pixel value and one message per batch.
Images == {[i \in 1..n |-> <<p>>] : n \in BatchSizes, p \in Pixels}
Messages == {[i \in 1..n |-> MessagePattern] : n \in BatchSizes}

\* The pairs a caller passes: the aligned batches, and three that are
\* malformed: an image with a value too many, a message one bit short,
\* and one image with two messages.
Batches ==
    {b \in Images \X Messages : Len(b[1]) = Len(b[2])}
    \cup {<< <<<<0, 0>>>>, <<MessagePattern>> >>,
          << <<<<0>>>>, <<<<1>>>> >>,
          << <<<<0>>>>, <<MessagePattern, MessagePattern>> >>}

WellFormedImages(imgs) == \A i \in 1..Len(imgs) : Len(imgs[i]) = Channels

\* Batch-aligned, and every message of the configured length.
Aligned(imgs, msgs, msglen) ==
    /\ Len(imgs) = Len(msgs)
    /\ \A i \in 1..Len(msgs) : Len(msgs[i]) = msglen

\* ------------------------------------------------- the two sub-models

Modules == {"encoder_decoder", "discriminator"}

\* Discriminator.forward: one logit per image.  It raises on an image of
\* the wrong shape.
DiscriminatorAccepts(imgs) == WellFormedImages(imgs)
DiscriminatorForward(theta, imgs) ==
    [i \in 1..Len(imgs) |-> theta + imgs[i][1]]

\* UnetEncoderDecoder.forward: (encoded_images, noised_images,
\* decoded_messages).  n is what the stochastic layers draw: 0 in
\* evaluation mode.  It raises on batches that are not aligned.
EncoderDecoderAccepts(imgs, msgs) ==
    WellFormedImages(imgs) /\ Aligned(imgs, msgs, MessageLength)
EncodedImages(theta, imgs, msgs) ==
    [i \in 1..Len(imgs) |-> <<imgs[i][1] + theta * msgs[i][1]>>]
NoisedImages(theta, imgs, msgs, n) ==
    [i \in 1..Len(imgs) |-> <<EncodedImages(theta, imgs, msgs)[i][1] + n>>]
DecodedMessages(theta, msgs, n) ==
    [i \in 1..Len(msgs) |->
        [j \in 1..Len(msgs[i]) |-> theta + n + 2 * msgs[i][j]]]

\* What the stochastic layers of a sub-model may draw in a forward pass.
NoiseDraws(is_training) == IF is_training THEN {0, 1} ELSE {0}

\* ------------------------------------------------------- torch functions

\* log(1 + exp(-a)) for a >= 0, in hundredths.
Log1pExpNeg(a) ==
    CASE a = 0 -> 69 [] a = 1 -> 31 [] a = 2 -> 13 [] a = 3 -> 5
      [] a = 4 -> 2 [] OTHER -> 0

\* 100 * sigmoid(z).
Sigmoid(z) ==
    CASE z <= -3 -> 5 [] z = -2 -> 12 [] z = -1 -> 27 [] z = 0 -> 50
      [] z = 1 -> 73 [] z = 2 -> 88 [] OTHER -> 95

\* f.binary_cross_entropy_with_logits(z, full((N, 1), y)): the mean over
\* the batch of (1 - y) * z + max(-z, 0) + log(1 + exp(-|z|)).
BCEWithLogits(z, y) ==
    <<SeqSum([i \in 1..Len(z) |->
          100 * ((1 - y) * z[i] + Max(-z[i], 0)) + Log1pExpNeg(Abs(z[i]))]),
      100 * Len(z)>>

\* f.mse_loss(a, b) of two batches of vectors; unit is the number of
\* steps of a's and b's scale in 1 (1 for pixels, 4 for message values).
MSELoss(a, b, unit) ==
    LET x == Flatten(a)
        y == Flatten(b)
    IN  <<SeqSum([k \in 1..Len(x) |-> (x[k] - y[k]) * (x[k] - y[k])]),
          unit * unit * Len(x)>>

\* numpy's round() of q/4: to the nearest integer, a tie to the even one.
NumpyRound(q) ==
    LET lo == q \div 4
        r == q % 4
    IN  CASE r = 0 -> lo
          [] r = 1 -> lo
          [] r = 3 -> lo + 1
          [] OTHER -> IF lo % 2 = 0 THEN lo ELSE lo + 1

\* numpy's clip(lo, hi).
NumpyClip(x, lo, hi) == Min(Max(x, lo), hi)

\* ------------------------------------------------------------- autograd

\* A tensor that came out of a forward pass: its values, the sub-models
\* whose parameters a backward pass through it reaches (none after
\* detach() or under no_grad), and the number of the encoder-decoder
\* forward pass of the call that produced it (0: none).
NoTensor == [val |-> <<>>, graph |-> {}, pass |-> 0]
Detach(t) == [t EXCEPT !.graph = {}]

\* A scalar loss: its value and the sub-models its backward pass reaches.
NoLoss == [val |-> <<0, 1>>, graph |-> {}]

\* The sub-models a forward pass of `who` on an input with graph `g`
\* records for backward.
Graph(grad_enabled, who, g) == IF grad_enabled THEN {who} \cup g ELSE {}

\* d/dtheta of the batch mean of BCE-with-logits, in hundredths: dz[i] is
\* the derivative of logit i by theta.
BCEGrad(z, y, dz) ==
    SeqSum([i \in 1..Len(z) |-> (Sigmoid(z[i]) - 100 * y) * dz[i]]) \div Len(z)

\* The derivative of each logit by the discriminator's parameter and by
\* the encoder-decoder's (through the encoded images).
DLogitDDiscrim(z) == [i \in 1..Len(z) |-> 1]
DLogitDEncDec(msgs) == [i \in 1..Len(msgs) |-> msgs[i][1]]

\* d/dtheta of mse_loss(encoded_images, images), in hundredths.
EncMSEGrad(theta, msgs) ==
    SeqSum([i \in 1..Len(msgs) |-> 200 * theta * msgs[i][1] * msgs[i][1]])
        \div Len(msgs)

\* d/dtheta of mse_loss(decoded_messages, messages), in hundredths.
DecMSEGrad(theta, msgs, n) ==
    LET m == Flatten(msgs)
    IN  (25 * SeqSum([k \in 1..Len(m) |-> theta + n - 2 * m[k]]))
            \div (2 * Len(m))

\* ------------------------------------------------------------ optimizers

\* optimizer_enc_dec constructed over the parameters of both sub-models.
optimizer_enc_dec_params_Both == {"encoder_decoder", "discriminator"}

\* The parameters each optimizer was constructed over.
optimizer_enc_dec_params == {"encoder_decoder"}
optimizer_discrim_params == {"discriminator"}

\* torch.optim.Adam over the parameters `owned`: the number of steps
\* taken and, per parameter, the first moment.  The moment is kept as a
\* clamped sum of gradient signs and a step moves a parameter by the sign
\* of its moment: a step can move a parameter whose gradient is zero.
NewAdam(owned) == [owned |-> owned, step |-> 0, exp_avg |-> [m \in owned |-> 0]]

ZeroGrad(opt, g) == [m \in Modules |-> IF m \in opt.owned THEN 0 ELSE g[m]]

AdamMoment(opt, g) ==
    [m \in opt.owned |-> NumpyClip(opt.exp_avg[m] + Sgn(g[m]), -2, 2)]

AdamStepState(opt, g) ==
    [opt EXCEPT !.step = @ + 1, !.exp_avg = AdamMoment(opt, g)]

AdamStepParams(opt, p, g) ==
    [m \in Modules |->
        IF m \in opt.owned THEN p[m] - Sgn(AdamMoment(opt, g)[m]) ELSE p[m]]

\* ------------------------------------------------------------- the state

VARIABLES
    config,             \* self.config
    pc,                 \* "new", "dead", "ready", or the line that runs next
    op,                 \* the method of the current (or last) call
    images, messages,   \* its arguments
    training,           \* the mode of each sub-model (nn.Module.training)
    params,             \* the parameter of each sub-model
    grads,              \* the gradient buffer of each sub-model's parameter
    optimizer_enc_dec,  \* self.optimizer_enc_dec
    optimizer_discrim,  \* self.optimizer_discrim
    frame,              \* the local variables of the current call
    result,             \* what the last call returned
    outcome,            \* how the last call ended
    calls,              \* the number of calls made
    log,                \* the operations of the current call, in order
    pre,                \* the learning state when the current call began
    grad_src,           \* per gradient buffer: the backward passes in it
    last                \* what is kept of the call before the current one

vars ==
    <<config, pc, op, images, messages, training, params, grads,
      optimizer_enc_dec, optimizer_discrim, frame, result, outcome, calls,
      log, pre, grad_src, last>>

\* The parameters, the gradient buffers and the state of both optimizers.
LearningState ==
    [params |-> params, grads |-> grads,
     optimizer_enc_dec |-> optimizer_enc_dec,
     optimizer_discrim |-> optimizer_discrim]

\* The parameters the two sub-models may have after construction.
InitialParams == {[m \in Modules |-> IF m = "encoder_decoder" THEN g ELSE 0] :
                     g \in {0, 1}}

NoFrame ==
    [batch_size |-> 0, grad_enabled |-> FALSE, passes |-> 0, noise |-> 0,
     d_loss_on_cover |-> NoLoss, d_loss_on_encoded |-> NoLoss,
     encoded_images |-> NoTensor, noised_images |-> NoTensor,
     decoded_messages |-> NoTensor,
     g_loss_adv |-> NoLoss, g_loss_enc |-> NoLoss, g_loss_dec |-> NoLoss,
     g_loss |-> NoLoss]

NoResult == [losses |-> <<>>, tensors |-> <<NoTensor, NoTensor, NoTensor>>]
NoOutcome == [kind |-> "none", line |-> 0, error |-> ""]
NoCall == [op |-> "none", kind |-> "none", images |-> <<>>,
           messages |-> <<>>, losses |-> <<>>]

\* What is kept of a call for the next one: its method and how it ended
\* and, of a validate_on_batch that returned, its arguments and losses,
\* and of a train_on_batch that raised, its arguments.
Kept ==
    IF op = "validate_on_batch" /\ outcome.kind = "returned"
    THEN [op |-> op, kind |-> outcome.kind, images |-> images,
          messages |-> messages, losses |-> result.losses]
    ELSE IF op = "train_on_batch" /\ outcome.kind = "raised"
    THEN [NoCall EXCEPT !.op = op, !.kind = outcome.kind, !.images = images,
                        !.messages = messages]
    ELSE [NoCall EXCEPT !.op = op, !.kind = outcome.kind]

\* One entry of log.
Event(ev, who, input, tensor) ==
    [ev |-> ev, who |-> who, input |-> input, pass |-> tensor.pass,
     detached |-> tensor.graph = {}, training |-> training, theta |-> params,
     steps |-> <<optimizer_enc_dec.step, optimizer_discrim.step>>]

\* Before __init__ has run.
Init ==
    /\ config \in Configs
    /\ pc = "new"
    /\ op = "none"
    /\ images = <<>>
    /\ messages = <<>>
    /\ training = [m \in Modules |-> TRUE]
    /\ params = [m \in Modules |-> 0]
    /\ grads = [m \in Modules |-> 0]
    /\ optimizer_enc_dec = NewAdam({})
    /\ optimizer_discrim = NewAdam({})
    /\ frame = NoFrame
    /\ result = NoResult
    /\ outcome = NoOutcome
    /\ calls = 0
    /\ log = <<>>
    /\ pre = [params |-> [m \in Modules |-> 0], grads |-> [m \in Modules |-> 0],
              optimizer_enc_dec |-> NewAdam({}),
              optimizer_discrim |-> NewAdam({})]
    /\ grad_src = [m \in Modules |-> {}]
    /\ last = NoCall

\* UnetModel.__init__: a KeyError on the first key of the constructor that
\* config lacks; otherwise both sub-models (in training mode, parameters
\* freshly initialised) and one Adam optimizer over each.
UnetModel_init ==
    /\ pc = "new"
    /\ IF ConstructorKeys \subseteq DOMAIN config
       THEN /\ pc' = "ready"
            /\ params' \in InitialParams
            /\ optimizer_enc_dec' = NewAdam(optimizer_enc_dec_params)
            /\ optimizer_discrim' = NewAdam(optimizer_discrim_params)
            /\ UNCHANGED outcome
       ELSE /\ pc' = "dead"
            /\ outcome' = [kind |-> "raised", line |-> 16, error |-> "KeyError"]
            /\ UNCHANGED <<params, optimizer_enc_dec, optimizer_discrim>>
    /\ UNCHANGED <<config, op, images, messages, training, grads, frame,
                   result, calls, log, pre, grad_src, last>>

\* A statement of a call raises: the call ends there, nothing is undone.
Raise(line, error) ==
    /\ pc' = "ready"
    /\ outcome' = [kind |-> "raised", line |-> line, error |-> error]
    /\ result' = NoResult

\* The caller starts a call of `method` with batch b: mode is the mode of
\* each sub-model once the first lines have run, first the line after them.
Call(method, b, first, mode, grad_enabled) ==
    /\ pc' = first
    /\ op' = method
    /\ images' = b[1]
    /\ messages' = b[2]
    /\ training' = mode
    /\ frame' = [NoFrame EXCEPT !.batch_size = Len(b[1]),
                                !.grad_enabled = grad_enabled]
    /\ calls' = calls + 1
    /\ log' = <<>>
    /\ pre' = LearningState
    /\ last' = Kept
    /\ UNCHANGED <<config, params, grads, optimizer_enc_dec,
                   optimizer_discrim, result, outcome, grad_src>>

\* loss.backward(): the gradient of the loss, amount[m] for sub-model m,
\* is added to the buffer of every sub-model its graph reaches.
Backward(g, graph, amount) ==
    [m \in Modules |-> IF m \in graph THEN g[m] + amount[m] ELSE g[m]]

BackwardSrc(src, graph, name) ==
    [m \in Modules |-> IF m \in graph THEN src[m] \cup {<<calls, name>>}
                       ELSE src[m]]

ZeroGradSrc(opt, src) ==
    [m \in Modules |-> IF m \in opt.owned THEN {} ELSE src[m]]

\* ------------------------------------------------------- train_on_batch

\* train_on_batch without self.discriminator.train(): the discriminator
\* stays in the mode the previous operation left.
train_on_batch_NoDiscrimTrain ==
    /\ pc = "ready"
    /\ calls < MaxCalls
    /\ \E b \in Batches : Call("train_on_batch", b, "L58",
                             [m \in Modules |->
                                 IF m = "discriminator" THEN training[m]
                                 ELSE TRUE], TRUE)

\* Lines 53-56: the batch size, both sub-models to training mode,
\* gradients enabled.
train_on_batch ==
    /\ pc = "ready"
    /\ calls < MaxCalls
    /\ \E b \in Batches : Call("train_on_batch", b, "L58",
                             [m \in Modules |-> TRUE], TRUE)

\* train_L58 without the zero_grad().
train_L58_NoZeroGrad ==
    /\ pc = "L58"
    /\ pc' = "L64"
    /\ UNCHANGED <<config, op, images, messages, training, params, grads,
                   optimizer_enc_dec, optimizer_discrim, frame, result,
                   outcome, calls, log, pre, grad_src, last>>

\* Line 58: self.optimizer_discrim.zero_grad().
train_L58 ==
    /\ pc = "L58"
    /\ grads' = ZeroGrad(optimizer_discrim, grads)
    /\ grad_src' = ZeroGradSrc(optimizer_discrim, grad_src)
    /\ log' = Append(log, Event("zero_grad", "optimizer_discrim", "", NoTensor))
    /\ pc' = "L64"
    /\ UNCHANGED <<config, op, images, messages, training, params,
                   optimizer_enc_dec, optimizer_discrim, frame, result,
                   outcome, calls, pre, last>>

\* Lines 64-65: the discriminator on the cover images and its loss
\* against the cover label.
train_L64 ==
    /\ pc = "L64"
    /\ IF DiscriminatorAccepts(images)
       THEN /\ frame' = [frame EXCEPT !.d_loss_on_cover =
                  [val |-> BCEWithLogits(
                      DiscriminatorForward(params["discriminator"], images),
                      cover_label),
                   graph |-> Graph(frame.grad_enabled, "discriminator", {})]]
            /\ log' = Append(log, Event("forward", "discriminator", "images",
                                        NoTensor))
            /\ pc' = "L66"
            /\ UNCHANGED <<result, outcome>>
       ELSE /\ Raise(64, "shape")
            /\ UNCHANGED <<frame, log>>
    /\ UNCHANGED <<config, op, images, messages, training, params, grads,
                   optimizer_enc_dec, optimizer_discrim, calls, pre,
                   grad_src, last>>

\* The gradient d_loss_on_cover.backward() adds to m's buffer.
DLossOnCoverGrad(m) ==
    LET z == DiscriminatorForward(params["discriminator"], images)
    IN  BCEGrad(z, cover_label, DLogitDDiscrim(z))

\* Line 66: d_loss_on_cover.backward().
train_L66 ==
    /\ pc = "L66"
    /\ grads' = Backward(grads, frame.d_loss_on_cover.graph,
                         [m \in Modules |-> DLossOnCoverGrad(m)])
    /\ grad_src' = BackwardSrc(grad_src, frame.d_loss_on_cover.graph,
                               "d_loss_on_cover")
    /\ log' = Append(log, Event("backward", "d_loss_on_cover", "", NoTensor))
    /\ pc' = "L69"
    /\ UNCHANGED <<config, op, images, messages, training, params,
                   optimizer_enc_dec, optimizer_discrim, frame, result,
                   outcome, calls, pre, last>>

\* frame after a forward pass of the encoder-decoder that drew n.
EncoderDecoderCall(n) ==
    LET theta == params["encoder_decoder"]
        g == Graph(frame.grad_enabled, "encoder_decoder", {})
        k == frame.passes + 1
    IN  [frame EXCEPT
            !.passes = k,
            !.noise = n,
            !.encoded_images =
                [val |-> EncodedImages(theta, images, messages),
                 graph |-> g, pass |-> k],
            !.noised_images =
                [val |-> NoisedImages(theta, images, messages, n),
                 graph |-> g, pass |-> k],
            !.decoded_messages =
                [val |-> DecodedMessages(theta, messages, n),
                 graph |-> g, pass |-> k]]

\* Line 69: the forward pass of the encoder-decoder.
train_L69 ==
    /\ pc = "L69"
    /\ IF EncoderDecoderAccepts(images, messages)
       THEN /\ \E n \in NoiseDraws(training["encoder_decoder"]) :
                  frame' = EncoderDecoderCall(n)
            /\ log' = Append(log, Event("forward", "encoder_decoder",
                                        "images, messages", NoTensor))
            /\ pc' = "L70"
            /\ UNCHANGED <<result, outcome>>
       ELSE /\ Raise(69, "shape")
            /\ UNCHANGED <<frame, log>>
    /\ UNCHANGED <<config, op, images, messages, training, params, grads,
                   optimizer_enc_dec, optimizer_discrim, calls, pre,
                   grad_src, last>>

\* The loss of the discriminator on tensor t against label y.
DiscriminatorLoss(t, y) ==
    [val |-> BCEWithLogits(
                DiscriminatorForward(params["discriminator"], t.val), y),
     graph |-> Graph(frame.grad_enabled, "discriminator", t.graph)]

\* Line 70 without detach().
train_L70_input_NotDetached == frame.encoded_images

\* The tensor line 70 hands to the discriminator.
train_L70_input == Detach(frame.encoded_images)

\* Lines 70-71: the discriminator on the detached encoded images and its
\* loss against the encoded label.
train_L70 ==
    /\ pc = "L70"
    /\ frame' = [frame EXCEPT !.d_loss_on_encoded =
                    DiscriminatorLoss(train_L70_input, encoded_label)]
    /\ log' = Append(log, Event("forward", "discriminator", "encoded_images",
                                train_L70_input))
    /\ pc' = "L73"
    /\ UNCHANGED <<config, op, images, messages, training, params, grads,
                   optimizer_enc_dec, optimizer_discrim, result, outcome,
                   calls, pre, grad_src, last>>

\* The gradient of a discriminator loss on the encoded images, label y.
OnEncodedGrad(m, y) ==
    LET z == DiscriminatorForward(params["discriminator"],
                                  frame.encoded_images.val)
    IN  BCEGrad(z, y, IF m = "discriminator" THEN DLogitDDiscrim(z)
                      ELSE DLogitDEncDec(messages))

DLossOnEncodedGrad(m) == OnEncodedGrad(m, encoded_label)

\* Line 73: d_loss_on_encoded.backward().
train_L73 ==
    /\ pc = "L73"
    /\ grads' = Backward(grads, frame.d_loss_on_encoded.graph,
                         [m \in Modules |-> DLossOnEncodedGrad(m)])
    /\ grad_src' = BackwardSrc(grad_src, frame.d_loss_on_encoded.graph,
                               "d_loss_on_encoded")
    /\ log' = Append(log, Event("backward", "d_loss_on_encoded", "", NoTensor))
    /\ pc' = "L74"
    /\ UNCHANGED <<config, op, images, messages, training, params,
                   optimizer_enc_dec, optimizer_discrim, frame, result,
                   outcome, calls, pre, last>>

\* Line 74: self.optimizer_discrim.step().
train_L74 ==
    /\ pc = "L74"
    /\ params' = AdamStepParams(optimizer_discrim, params, grads)
    /\ optimizer_discrim' = AdamStepState(optimizer_discrim, grads)
    /\ log' = Append(log, Event("step", "optimizer_discrim", "", NoTensor))
    /\ pc' = "L77"
    /\ UNCHANGED <<config, op, images, messages, training, grads,
                   optimizer_enc_dec, frame, result, outcome, calls, pre,
                   grad_src, last>>

\* train_L77 without the zero_grad().
train_L77_NoZeroGrad ==
    /\ pc = "L77"
    /\ pc' = "L79"
    /\ UNCHANGED <<config, op, images, messages, training, params, grads,
                   optimizer_enc_dec, optimizer_discrim, frame, result,
                   outcome, calls, log, pre, grad_src, last>>

\* Line 77: self.optimizer_enc_dec.zero_grad().
train_L77 ==
    /\ pc = "L77"
    /\ grads' = ZeroGrad(optimizer_enc_dec, grads)
    /\ grad_src' = ZeroGradSrc(optimizer_enc_dec, grad_src)
    /\ log' = Append(log, Event("zero_grad", "optimizer_enc_dec", "", NoTensor))
    /\ pc' = "L79"
    /\ UNCHANGED <<config, op, images, messages, training, params,
                   optimizer_enc_dec, optimizer_discrim, frame, result,
                   outcome, calls, pre, last>>

\* train_L79 with the encoder-decoder run a second time for the
\* generator phase.
train_L79_Recompute ==
    /\ pc = "L79"
    /\ \E n \in NoiseDraws(training["encoder_decoder"]) :
          LET f == EncoderDecoderCall(n)
          IN  /\ frame' = [f EXCEPT !.g_loss_adv =
                              [val |-> BCEWithLogits(
                                  DiscriminatorForward(params["discriminator"],
                                                       f.encoded_images.val),
                                  cover_label),
                               graph |-> Graph(f.grad_enabled, "discriminator",
                                               f.encoded_images.graph)]]
              /\ log' = log \o
                    <<Event("forward", "encoder_decoder", "images, messages",
                            NoTensor),
                      Event("forward", "discriminator", "encoded_images",
                            f.encoded_images)>>
    /\ pc' = "L82"
    /\ UNCHANGED <<config, op, images, messages, training, params, grads,
                   optimizer_enc_dec, optimizer_discrim, result, outcome,
                   calls, pre, grad_src, last>>

\* train_L79 with the discriminator not evaluated again: the adversarial
\* loss is taken from the logits the discriminator gave before its step.
train_L79_Reused ==
    /\ pc = "L79"
    /\ frame' = [frame EXCEPT !.g_loss_adv =
                    [val |-> BCEWithLogits(
                        DiscriminatorForward(pre.params["discriminator"],
                                             frame.encoded_images.val),
                        cover_label),
                     graph |-> Graph(frame.grad_enabled, "discriminator",
                                     frame.encoded_images.graph)]]
    /\ pc' = "L82"
    /\ UNCHANGED <<config, op, images, messages, training, params, grads,
                   optimizer_enc_dec, optimizer_discrim, result, outcome,
                   calls, log, pre, grad_src, last>>

\* Lines 79-80: the discriminator on the encoded images (not detached)
\* and the generator's adversarial loss against the cover label.
train_L79 ==
    /\ pc = "L79"
    /\ frame' = [frame EXCEPT !.g_loss_adv =
                    DiscriminatorLoss(frame.encoded_images, cover_label)]
    /\ log' = Append(log, Event("forward", "discriminator", "encoded_images",
                                frame.encoded_images))
    /\ pc' = "L82"
    /\ UNCHANGED <<config, op, images, messages, training, params, grads,
                   optimizer_enc_dec, optimizer_discrim, result, outcome,
                   calls, pre, grad_src, last>>

\* messages on the scale of decoded_messages (quarters).
Quarters(msgs) ==
    [i \in 1..Len(msgs) |-> [j \in 1..Len(msgs[i]) |-> 4 * msgs[i][j]]]

\* f.mse_loss(encoded_images, images) and
\* f.mse_loss(decoded_messages, messages).
EncoderMSE(f) ==
    [val |-> MSELoss(f.encoded_images.val, images, 1),
     graph |-> f.encoded_images.graph]
DecoderMSE(f) ==
    [val |-> MSELoss(f.decoded_messages.val, Quarters(messages), 4),
     graph |-> f.decoded_messages.graph]

\* Lines 82-84: the two fidelity losses.
train_L82 ==
    /\ pc = "L82"
    /\ frame' = [frame EXCEPT !.g_loss_enc = EncoderMSE(frame),
                              !.g_loss_dec = DecoderMSE(frame)]
    /\ pc' = "L85"
    /\ UNCHANGED <<config, op, images, messages, training, params, grads,
                   optimizer_enc_dec, optimizer_discrim, result, outcome,
                   calls, log, pre, grad_src, last>>

\* The keys the joint loss reads with config[...]: a KeyError without.
JointLossKeys == {"adv_loss_weight", "enc_loss_weight"}

\* JointLoss with the encoder's term subtracted.
JointLoss_Minus(c, adv, enc, dec) ==
    [val |-> RatAdd(RatAdd(RatScale(c["adv_loss_weight"], adv.val),
                           RatScale(-c["enc_loss_weight"], enc.val)),
                    RatScale(ConfigGet(c, "dec_loss_weight",
                                       dec_loss_weight_default), dec.val)),
     graph |-> adv.graph \cup enc.graph \cup dec.graph]

\* config['adv_loss_weight'] * g_loss_adv + config['enc_loss_weight'] *
\* g_loss_enc + config.get('dec_loss_weight', 1) * g_loss_dec.
JointLoss(c, adv, enc, dec) ==
    [val |-> RatAdd(RatAdd(RatScale(c["adv_loss_weight"], adv.val),
                           RatScale(c["enc_loss_weight"], enc.val)),
                    RatScale(ConfigGet(c, "dec_loss_weight",
                                       dec_loss_weight_default), dec.val)),
     graph |-> adv.graph \cup enc.graph \cup dec.graph]

\* train_L85 with the discriminator's step undone when the joint loss
\* raises.
train_L85_RollBack ==
    /\ pc = "L85"
    /\ IF JointLossKeys \subseteq DOMAIN config
       THEN /\ frame' = [frame EXCEPT !.g_loss =
                  JointLoss(config, frame.g_loss_adv, frame.g_loss_enc,
                            frame.g_loss_dec)]
            /\ pc' = "L88"
            /\ UNCHANGED <<result, outcome, params, optimizer_discrim>>
       ELSE /\ Raise(85, "KeyError")
            /\ params' = pre.params
            /\ optimizer_discrim' = pre.optimizer_discrim
            /\ UNCHANGED frame
    /\ UNCHANGED <<config, op, images, messages, training, grads,
                   optimizer_enc_dec, calls, log, pre, grad_src, last>>

\* Lines 85-86: the joint loss.
train_L85 ==
    /\ pc = "L85"
    /\ IF JointLossKeys \subseteq DOMAIN config
       THEN /\ frame' = [frame EXCEPT !.g_loss =
                  JointLoss(config, frame.g_loss_adv, frame.g_loss_enc,
                            frame.g_loss_dec)]
            /\ pc' = "L88"
            /\ UNCHANGED <<result, outcome>>
       ELSE /\ Raise(85, "KeyError")
            /\ UNCHANGED frame
    /\ UNCHANGED <<config, op, images, messages, training, params, grads,
                   optimizer_enc_dec, optimizer_discrim, calls, log, pre,
                   grad_src, last>>

\* The gradient g_loss.backward() adds to m's buffer: each term of the
\* joint loss whose graph reaches m, times its weight.
GLossGrad(m) ==
    (IF m \in frame.g_loss_adv.graph
     THEN config["adv_loss_weight"] * OnEncodedGrad(m, cover_label) ELSE 0)
    + (IF m \in frame.g_loss_enc.graph
       THEN config["enc_loss_weight"]
                * EncMSEGrad(params["encoder_decoder"], messages) ELSE 0)
    + (IF m \in frame.g_loss_dec.graph
       THEN ConfigGet(config, "dec_loss_weight", dec_loss_weight_default)
                * DecMSEGrad(params["encoder_decoder"], messages, frame.noise)
       ELSE 0)

\* Line 88: g_loss.backward().
train_L88 ==
    /\ pc = "L88"
    /\ grads' = Backward(grads, frame.g_loss.graph,
                         [m \in Modules |-> GLossGrad(m)])
    /\ grad_src' = BackwardSrc(grad_src, frame.g_loss.graph, "g_loss")
    /\ log' = Append(log, Event("backward", "g_loss", "", NoTensor))
    /\ pc' = "L89"
    /\ UNCHANGED <<config, op, images, messages, training, params,
                   optimizer_enc_dec, optimizer_discrim, frame, result,
                   outcome, calls, pre, last>>

\* Line 89: self.optimizer_enc_dec.step().
train_L89 ==
    /\ pc = "L89"
    /\ params' = AdamStepParams(optimizer_enc_dec, params, grads)
    /\ optimizer_enc_dec' = AdamStepState(optimizer_enc_dec, grads)
    /\ log' = Append(log, Event("step", "optimizer_enc_dec", "", NoTensor))
    /\ pc' = "L91"
    /\ UNCHANGED <<config, op, images, messages, training, grads,
                   optimizer_discrim, frame, result, outcome, calls, pre,
                   grad_src, last>>

\* ---------------------------------------------------------- the metrics

\* decoded_rounded without the clip(0, 1).
decoded_rounded_NoClip(q) == NumpyRound(q)

\* decoded_messages.detach().cpu().numpy().round().clip(0, 1), per value.
decoded_rounded(q) == NumpyClip(NumpyRound(q), 0, 1)

\* np.sum(np.abs(decoded_rounded - messages)) / (batch_size *
\* messages.shape[1]).
bitwise_avg_err(decoded, msgs, batch_size) ==
    LET d == Flatten(decoded)
        m == Flatten(msgs)
    IN  <<SeqSum([k \in 1..Len(d) |-> Abs(decoded_rounded(d[k]) - m[k])]),
          batch_size * Len(msgs[1])>>

\* The values of the members of wm.train.loss_names.LossNames.
LossNames ==
    [unet_loss |-> "unet_loss", encoder_mse |-> "encoder_mse",
     decoder_mse |-> "decoder_mse", bitwise |-> "bitwise",
     gen_adv_bce |-> "gen_adv_bce", discr_cov_bce |-> "discr_cov_bce",
     discr_enc_bce |-> "discr_enc_bce"]

\* A dict: a key written again keeps its place and takes the new value.
RECURSIVE DictOf(_)
DictOf(pairs) ==
    IF pairs = <<>> THEN <<>>
    ELSE LET n == Len(pairs)
             d == DictOf(SubSeq(pairs, 1, n - 1))
             kv == pairs[n]
         IN  IF \E i \in 1..Len(d) : d[i][1] = kv[1]
             THEN [i \in 1..Len(d) |-> IF d[i][1] = kv[1] THEN kv ELSE d[i]]
             ELSE Append(d, kv)

\* Lines 104-112: the OrderedDict train_on_batch builds, from its frame f
\* and the bitwise error e.
train_losses(f, e) ==
    DictOf(<<
        <<LossNames.unet_loss, f.g_loss.val>>,
        <<LossNames.encoder_mse, f.g_loss_enc.val>>,
        <<LossNames.decoder_mse, f.g_loss_dec.val>>,
        <<LossNames.bitwise, e>>,
        <<LossNames.gen_adv_bce, f.g_loss_adv.val>>,
        <<LossNames.discr_cov_bce, f.d_loss_on_cover.val>>,
        <<LossNames.discr_enc_bce, f.d_loss_on_encoded.val>> >>)

\* validate_losses with the two discriminator losses in the other order.
validate_losses_Swapped(f, e) ==
    DictOf(<<
        <<LossNames.unet_loss, f.g_loss.val>>,
        <<LossNames.encoder_mse, f.g_loss_enc.val>>,
        <<LossNames.decoder_mse, f.g_loss_dec.val>>,
        <<LossNames.bitwise, e>>,
        <<LossNames.gen_adv_bce, f.g_loss_adv.val>>,
        <<LossNames.discr_enc_bce, f.d_loss_on_encoded.val>>,
        <<LossNames.discr_cov_bce, f.d_loss_on_cover.val>> >>)

\* Lines 148-156: the OrderedDict validate_on_batch builds.
validate_losses(f, e) ==
    DictOf(<<
        <<LossNames.unet_loss, f.g_loss.val>>,
        <<LossNames.encoder_mse, f.g_loss_enc.val>>,
        <<LossNames.decoder_mse, f.g_loss_dec.val>>,
        <<LossNames.bitwise, e>>,
        <<LossNames.gen_adv_bce, f.g_loss_adv.val>>,
        <<LossNames.discr_cov_bce, f.d_loss_on_cover.val>>,
        <<LossNames.discr_enc_bce, f.d_loss_on_encoded.val>> >>)

\* The bitwise error of the current call.
BitwiseError ==
    bitwise_avg_err(frame.decoded_messages.val, messages, frame.batch_size)

\* The return statement of both methods.
Return(losses) ==
    /\ result' =
          [losses |-> losses,
           tensors |-> <<frame.encoded_images, frame.noised_images,
                         frame.decoded_messages>>]
    /\ outcome' = [kind |-> "returned", line |-> 0, error |-> ""]
    /\ pc' = "ready"

\* train_L91 with the encoder-decoder run again, after its step, for the
\* tensors and the bitwise error it returns.
train_L91_Refreshed ==
    /\ pc = "L91"
    /\ LET f == EncoderDecoderCall(frame.noise)
       IN  /\ result' =
                 [losses |-> train_losses(frame,
                                 bitwise_avg_err(f.decoded_messages.val,
                                                 messages, frame.batch_size)),
                  tensors |-> <<f.encoded_images, f.noised_images,
                                f.decoded_messages>>]
           /\ outcome' = [kind |-> "returned", line |-> 0, error |-> ""]
           /\ pc' = "ready"
    /\ UNCHANGED <<config, op, images, messages, training, params, grads,
                   optimizer_enc_dec, optimizer_discrim, frame, calls, log,
                   pre, grad_src, last>>

\* Lines 91-113: the bitwise error, the losses, the return.
train_L91 ==
    /\ pc = "L91"
    /\ Return(train_losses(frame, BitwiseError))
    /\ UNCHANGED <<config, op, images, messages, training, params, grads,
                   optimizer_enc_dec, optimizer_discrim, frame, calls, log,
                   pre, grad_src, last>>

\* ---------------------------------------------------- validate_on_batch

\* validate_on_batch without the two eval() calls: the sub-models stay in
\* the mode the call before left them in.
validate_on_batch_NoEval ==
    /\ pc = "ready"
    /\ calls < MaxCalls
    /\ \E b \in Batches : Call("validate_on_batch", b, "L127", training, FALSE)

\* Lines 118-122: the batch size, both sub-models to evaluation mode,
\* gradients disabled.
validate_on_batch ==
    /\ pc = "ready"
    /\ calls < MaxCalls
    /\ \E b \in Batches : Call("validate_on_batch", b, "L127",
                             [m \in Modules |-> FALSE], FALSE)

\* Lines 127-128: the discriminator on the cover images and its loss.
validate_L127 ==
    /\ pc = "L127"
    /\ IF DiscriminatorAccepts(images)
       THEN /\ frame' = [frame EXCEPT !.d_loss_on_cover =
                  [val |-> BCEWithLogits(
                      DiscriminatorForward(params["discriminator"], images),
                      cover_label),
                   graph |-> Graph(frame.grad_enabled, "discriminator", {})]]
            /\ log' = Append(log, Event("forward", "discriminator", "images",
                                        NoTensor))
            /\ pc' = "L130"
            /\ UNCHANGED <<result, outcome>>
       ELSE /\ Raise(127, "shape")
            /\ UNCHANGED <<frame, log>>
    /\ UNCHANGED <<config, op, images, messages, training, params, grads,
                   optimizer_enc_dec, optimizer_discrim, calls, pre,
                   grad_src, last>>

\* Line 130: the forward pass of the encoder-decoder.
validate_L130 ==
    /\ pc = "L130"
    /\ IF EncoderDecoderAccepts(images, messages)
       THEN /\ \E n \in NoiseDraws(training["encoder_decoder"]) :
                  frame' = EncoderDecoderCall(n)
            /\ log' = Append(log, Event("forward", "encoder_decoder",
                                        "images, messages", NoTensor))
            /\ pc' = "L132"
            /\ UNCHANGED <<result, outcome>>
       ELSE /\ Raise(130, "shape")
            /\ UNCHANGED <<frame, log>>
    /\ UNCHANGED <<config, op, images, messages, training, params, grads,
                   optimizer_enc_dec, optimizer_discrim, calls, pre,
                   grad_src, last>>

\* Lines 132-136: the discriminator on the encoded images, twice: its
\* loss against the encoded label and the generator's adversarial loss
\* against the cover label.
validate_L132 ==
    /\ pc = "L132"
    /\ frame' = [frame EXCEPT
                    !.d_loss_on_encoded =
                        DiscriminatorLoss(frame.encoded_images, encoded_label),
                    !.g_loss_adv =
                        DiscriminatorLoss(frame.encoded_images, cover_label)]
    /\ log' = log \o
                <<Event("forward", "discriminator", "encoded_images",
                        frame.encoded_images),
                  Event("forward", "discriminator", "encoded_images",
                        frame.encoded_images)>>
    /\ pc' = "L138"
    /\ UNCHANGED <<config, op, images, messages, training, params, grads,
                   optimizer_enc_dec, optimizer_discrim, result, outcome,
                   calls, pre, grad_src, last>>

\* Lines 138-140: the two fidelity losses.
validate_L138 ==
    /\ pc = "L138"
    /\ frame' = [frame EXCEPT !.g_loss_enc = EncoderMSE(frame),
                              !.g_loss_dec = DecoderMSE(frame)]
    /\ pc' = "L141"
    /\ UNCHANGED <<config, op, images, messages, training, params, grads,
                   optimizer_enc_dec, optimizer_discrim, result, outcome,
                   calls, log, pre, grad_src, last>>

\* validate_JointLoss with a decoder weight of 0 when the key is absent.
validate_JointLoss_DefaultZero(c, adv, enc, dec) ==
    [val |-> RatAdd(RatAdd(RatScale(c["adv_loss_weight"], adv.val),
                           RatScale(c["enc_loss_weight"], enc.val)),
                    RatScale(ConfigGet(c, "dec_loss_weight", 0), dec.val)),
     graph |-> adv.graph \cup enc.graph \cup dec.graph]

\* Lines 141-142: config['adv_loss_weight'] * g_loss_adv +
\* config['enc_loss_weight'] * g_loss_enc + config.get('dec_loss_weight', 1)
\* * g_loss_dec, written out a second time in validate_on_batch.
validate_JointLoss(c, adv, enc, dec) ==
    [val |-> RatAdd(RatAdd(RatScale(c["adv_loss_weight"], adv.val),
                           RatScale(c["enc_loss_weight"], enc.val)),
                    RatScale(ConfigGet(c, "dec_loss_weight",
                                       dec_loss_weight_default), dec.val)),
     graph |-> adv.graph \cup enc.graph \cup dec.graph]

\* validate_L141 with the generator's optimizer step of train_on_batch
\* left in after the joint loss.
validate_L141_Stepping ==
    /\ pc = "L141"
    /\ IF JointLossKeys \subseteq DOMAIN config
       THEN /\ frame' = [frame EXCEPT !.g_loss =
                  validate_JointLoss(config, frame.g_loss_adv,
                           frame.g_loss_enc, frame.g_loss_dec)]
            /\ params' = AdamStepParams(optimizer_enc_dec, params, grads)
            /\ optimizer_enc_dec' = AdamStepState(optimizer_enc_dec, grads)
            /\ log' = Append(log, Event("step", "optimizer_enc_dec", "",
                                        NoTensor))
            /\ pc' = "L144"
            /\ UNCHANGED <<result, outcome>>
       ELSE /\ Raise(141, "KeyError")
            /\ UNCHANGED <<frame, params, optimizer_enc_dec, log>>
    /\ UNCHANGED <<config, op, images, messages, training, grads,
                   optimizer_discrim, calls, pre, grad_src, last>>

\* Lines 141-142: the joint loss.
validate_L141 ==
    /\ pc = "L141"
    /\ IF JointLossKeys \subseteq DOMAIN config
       THEN /\ frame' = [frame EXCEPT !.g_loss =
                  validate_JointLoss(config, frame.g_loss_adv,
                           frame.g_loss_enc, frame.g_loss_dec)]
            /\ pc' = "L144"
            /\ UNCHANGED <<result, outcome>>
       ELSE /\ Raise(141, "KeyError")
            /\ UNCHANGED frame
    /\ UNCHANGED <<config, op, images, messages, training, params, grads,
                   optimizer_enc_dec, optimizer_discrim, calls, log, pre,
                   grad_src, last>>

\* Lines 144-157: the bitwise error, the losses, the return.
validate_L144 ==
    /\ pc = "L144"
    /\ Return(validate_losses(frame, BitwiseError))
    /\ UNCHANGED <<config, op, images, messages, training, params, grads,
                   optimizer_enc_dec, optimizer_discrim, frame, calls, log,
                   pre, grad_src, last>>

\* ------------------------------------------------------ the specification

Next ==
    \/ UnetModel_init
    \/ train_on_batch
    \/ train_L58
    \/ train_L64
    \/ train_L66
    \/ train_L69
    \/ train_L70
    \/ train_L73
    \/ train_L74
    \/ train_L77
    \/ train_L79
    \/ train_L82
    \/ train_L85
    \/ train_L88
    \/ train_L89
    \/ train_L91
    \/ validate_on_batch
    \/ validate_L127
    \/ validate_L130
    \/ validate_L132
    \/ validate_L138
    \/ validate_L141
    \/ validate_L144

Spec == Init /\ [][Next]_vars

\* ------------------------------------------------------------ properties

\* The places in log of the operations `ev` of `who`.
Places(ev, who) == {i \in 1..Len(log) : log[i].ev = ev /\ log[i].who = who}

\* The one place of a set of places known to hold exactly one.
The(S) == CHOOSE i \in S : TRUE

Returned(method) ==
    pc = "ready" /\ op = method /\ outcome.kind = "returned"

Raised(method) ==
    pc = "ready" /\ op = method /\ outcome.kind = "raised"

\* C1: during and after a validate_on_batch call, whatever calls came
\* before it, the parameters, the gradient buffers and the state of both
\* optimizers are what they were when the call began, and the call has
\* run no zero_grad, no backward and no optimizer step.
C1_ValidateReadOnly ==
    op = "validate_on_batch" =>
        /\ LearningState = pre
        /\ \A i \in 1..Len(log) : log[i].ev \notin {"zero_grad", "backward", "step"}

\* A validate_on_batch that returned after training: both optimizers have
\* stepped and both gradient buffers hold gradient.
C1_Witness ==
    /\ Returned("validate_on_batch")
    /\ optimizer_enc_dec.step > 0
    /\ optimizer_discrim.step > 0
    /\ \A m \in Modules : grads[m] # 0

\* C2: a train_on_batch call that returned has stepped each optimizer
\* exactly once, the discriminator's before the encoder-decoder's
\* zero_grad, backward and step; it has run the encoder-decoder exactly
\* once, and that pass is the input of both discriminator evaluations of
\* the encoded images (detached in the discriminator phase, not detached
\* in the generator phase) and the pass whose tensors are returned.
C2_OneStepEachOnePass ==
    Returned("train_on_batch") =>
        /\ Cardinality(Places("step", "optimizer_discrim")) = 1
        /\ Cardinality(Places("step", "optimizer_enc_dec")) = 1
        /\ Cardinality(Places("zero_grad", "optimizer_enc_dec")) = 1
        /\ Cardinality(Places("backward", "g_loss")) = 1
        /\ LET d == The(Places("step", "optimizer_discrim"))
           IN  /\ d < The(Places("zero_grad", "optimizer_enc_dec"))
               /\ d < The(Places("backward", "g_loss"))
               /\ d < The(Places("step", "optimizer_enc_dec"))
        /\ Cardinality(Places("forward", "encoder_decoder")) = 1
        /\ frame.passes = 1
        /\ LET on_encoded ==
                   {i \in Places("forward", "discriminator") :
                        log[i].input = "encoded_images"}
               d == The(Places("step", "optimizer_discrim"))
           IN  /\ Cardinality(on_encoded) = 2
               /\ \A i \in on_encoded :
                     /\ log[i].pass = 1
                     /\ log[i].detached <=> i < d
        /\ \A k \in 1..3 : result.tensors[k].pass = 1
        /\ result.tensors = <<frame.encoded_images, frame.noised_images,
                              frame.decoded_messages>>

\* A train_on_batch that returned, on a batch of two, in which both
\* optimizers moved their parameters.
C2_Witness ==
    /\ Returned("train_on_batch")
    /\ frame.batch_size = 2
    /\ \A m \in Modules : params[m] # pre.params[m]

\* The lines of train_on_batch's two phases, by the line that runs next.
DiscriminatorPhase == {"L58", "L64", "L66", "L69", "L70", "L73", "L74"}
GeneratorPhase == {"L77", "L79", "L82", "L85", "L88", "L89"}

\* C3: over every sequence of calls, the encoder-decoder's parameter
\* changes only in the step of optimizer_enc_dec (line 89) and the
\* discriminator's only in the step of optimizer_discrim (line 74); so
\* through the discriminator phase the encoder-decoder's parameter is what
\* it was when the call began, and through the generator phase the
\* discriminator's is what it was when that phase began.
C3_ExclusiveOwnership ==
    /\ [][/\ params'["encoder_decoder"] # params["encoder_decoder"]
             => pc \in {"new", "L89"}
          /\ params'["discriminator"] # params["discriminator"]
             => pc \in {"new", "L74"}]_vars
    /\ [](op = "train_on_batch" =>
            /\ pc \in DiscriminatorPhase \cup {"L77"} =>
                  params["encoder_decoder"] = pre.params["encoder_decoder"]
            /\ pc \in (GeneratorPhase \ {"L77"}) \cup {"L91"} =>
                  params["discriminator"] =
                      log[The(Places("zero_grad", "optimizer_enc_dec"))]
                          .theta["discriminator"])

\* The end of a generator phase in which both steps moved their
\* parameter and the discriminator's gradient buffer holds the gradient
\* the generator's backward pass left there.
C3_Witness ==
    /\ op = "train_on_batch"
    /\ pc = "L91"
    /\ \A m \in Modules : params[m] # pre.params[m]
    /\ grads["discriminator"] # 0

\* C4 as claimed: in every train_on_batch call, the gradient on the
\* encoder-decoder's parameter is zero right after optimizer_discrim.step()
\* has returned (line 77 runs next).
C4_ZeroAfterDiscrimStep ==
    op = "train_on_batch" /\ pc = "L77" => grads["encoder_decoder"] = 0

\* C4 as amended: right after optimizer_discrim.step() has returned, the
\* gradient on the encoder-decoder's parameter is what it was when the
\* call began (the discriminator phase has not written it), which is zero
\* as long as optimizer_enc_dec has never stepped; and in every call it is
\* zero from optimizer_enc_dec.zero_grad() (line 77) until the
\* generator's backward pass (line 88).
C4_UntouchedThenZeroed ==
    op = "train_on_batch" =>
        /\ pc = "L77" =>
              /\ grads["encoder_decoder"] = pre.grads["encoder_decoder"]
              /\ optimizer_enc_dec.step = 0 => grads["encoder_decoder"] = 0
        /\ pc \in {"L79", "L82", "L85", "L88"} => grads["encoder_decoder"] = 0

\* A later call, right after optimizer_discrim.step(): the encoder-decoder
\* still holds the gradient of the previous call's generator phase.
C4_Witness ==
    /\ op = "train_on_batch"
    /\ pc = "L77"
    /\ optimizer_enc_dec.step > 0
    /\ grads["encoder_decoder"] # 0
    /\ params["discriminator"] # pre.params["discriminator"]

\* The backward passes of the current call that belong to the phase of
\* each optimizer.
PhaseLosses(opt) ==
    IF opt = "optimizer_discrim"
    THEN {<<calls, "d_loss_on_cover">>, <<calls, "d_loss_on_encoded">>}
    ELSE {<<calls, "g_loss">>}

\* C5: a train_on_batch call that raised in the discriminator phase has
\* left the discriminator's parameter and optimizer_discrim as they were
\* when the call began, and one that raised in the generator phase before
\* optimizer_enc_dec.step() has left the encoder-decoder's parameter and
\* optimizer_enc_dec as they were; and the gradient a step consumes is
\* only that of its own phase of its own call, so gradient accumulated
\* without its step never reaches a parameter, in no later call either.
C5_NoPartialPhase ==
    /\ Raised("train_on_batch") /\ outcome.line \in {64, 66, 69, 70, 71, 73} =>
          /\ params["discriminator"] = pre.params["discriminator"]
          /\ optimizer_discrim = pre.optimizer_discrim
    /\ Raised("train_on_batch") /\ outcome.line \in {79, 80, 82, 84, 85, 88} =>
          /\ params["encoder_decoder"] = pre.params["encoder_decoder"]
          /\ optimizer_enc_dec = pre.optimizer_enc_dec
    /\ pc = "L74" =>
          \A m \in optimizer_discrim.owned :
              grad_src[m] \subseteq PhaseLosses("optimizer_discrim")
    /\ pc = "L89" =>
          \A m \in optimizer_enc_dec.owned :
              grad_src[m] \subseteq PhaseLosses("optimizer_enc_dec")

\* The discriminator's step of a call that follows a train_on_batch which
\* raised in the encoder-decoder's forward pass, after the gradient of the
\* cover loss was accumulated: that gradient was still in the buffer when
\* this call began.
C5_Witness ==
    /\ op = "train_on_batch"
    /\ pc = "L74"
    /\ last.op = "train_on_batch"
    /\ last.kind = "raised"
    /\ pre.grads["discriminator"] # 0
    /\ pre.optimizer_discrim.step = 0

\* C6 as claimed: a configuration without adv_loss_weight or without
\* enc_loss_weight never gets past the constructor, so no call is ever
\* made and no optimizer ever steps.
C6_RejectedAtConstruction ==
    ~(JointLossKeys \subseteq DOMAIN config) =>
        /\ pc \in {"new", "dead"}
        /\ calls = 0
        /\ optimizer_discrim.step = 0
        /\ optimizer_enc_dec.step = 0

\* The keys of a dict, in order.
Keys(d) == [i \in 1..Len(d) |-> d[i][1]]

\* The value of key k of a dict.
Value(d, k) == d[CHOOSE i \in 1..Len(d) : d[i][1] = k][2]

\* The seven metrics, in the order of the specification.
MetricOrder ==
    <<"unet_loss", "encoder_mse", "decoder_mse", "bitwise", "gen_adv_bce",
      "discr_cov_bce", "discr_enc_bce">>

\* C7: a train_on_batch or validate_on_batch call that returned has
\* returned a mapping of exactly seven entries whose keys are, in this
\* order: joint loss, encoder MSE, decoder MSE, bitwise error, generator
\* adversarial loss, discriminator loss on cover images, discriminator
\* loss on encoded images; each holding the value of that name.
C7_SevenKeysInOrder ==
    pc = "ready" /\ outcome.kind = "returned" =>
        /\ Len(result.losses) = 7
        /\ Keys(result.losses) = MetricOrder
        /\ [i \in 1..7 |-> result.losses[i][2]] =
              <<frame.g_loss.val, frame.g_loss_enc.val, frame.g_loss_dec.val,
                BitwiseError, frame.g_loss_adv.val, frame.d_loss_on_cover.val,
                frame.d_loss_on_encoded.val>>

\* A validate_on_batch that returned after a train_on_batch that
\* returned, with two different discriminator losses.
C7_Witness ==
    /\ Returned("validate_on_batch")
    /\ last.op = "train_on_batch"
    /\ last.kind = "returned"
    /\ frame.d_loss_on_cover.val # frame.d_loss_on_encoded.val

\* C8 as claimed: each of the seven values a call returns is
\* non-negative.
C8_AllNonNegative ==
    pc = "ready" /\ outcome.kind = "returned" =>
        \A i \in 1..Len(result.losses) : RatNonNeg(result.losses[i][2])

\* The three weights of the joint loss.
Weights ==
    <<config["adv_loss_weight"], config["enc_loss_weight"],
      ConfigGet(config, "dec_loss_weight", dec_loss_weight_default)>>

\* C8 as amended: the six values other than the joint loss are
\* non-negative for all batches; the joint loss is the weighted sum of
\* the three component losses and is non-negative whenever none of the
\* three weights is negative.
C8_NonNegativeUnderNonNegativeWeights ==
    pc = "ready" /\ outcome.kind = "returned" =>
        /\ \A k \in {"encoder_mse", "decoder_mse", "bitwise", "gen_adv_bce",
                     "discr_cov_bce", "discr_enc_bce"} :
              RatNonNeg(Value(result.losses, k))
        /\ Value(result.losses, "unet_loss") =
              RatAdd(RatAdd(RatScale(Weights[1],
                                     Value(result.losses, "gen_adv_bce")),
                            RatScale(Weights[2],
                                     Value(result.losses, "encoder_mse"))),
                     RatScale(Weights[3], Value(result.losses, "decoder_mse")))
        /\ (\A i \in 1..3 : Weights[i] >= 0) =>
              RatNonNeg(Value(result.losses, "unet_loss"))

\* A call that returned a negative joint loss.
C8_Witness ==
    /\ pc = "ready"
    /\ outcome.kind = "returned"
    /\ ~RatNonNeg(Value(result.losses, "unet_loss"))
    /\ Value(result.losses, "encoder_mse")[1] > 0

\* C10: a validate_on_batch that returned right after a validate_on_batch
\* that returned, on the same images and messages, has returned the same
\* seven values.
C10_ValidateRepeatable ==
    /\ Returned("validate_on_batch")
    /\ last.op = "validate_on_batch"
    /\ last.kind = "returned"
    /\ last.images = images
    /\ last.messages = messages
    => result.losses = last.losses

\* Two validate_on_batch calls in a row on the same batch, after a
\* train_on_batch that moved both parameters.
C10_Witness ==
    /\ Returned("validate_on_batch")
    /\ last.op = "validate_on_batch"
    /\ last.kind = "returned"
    /\ last.images = images
    /\ last.messages = messages
    /\ calls = 3
    /\ optimizer_enc_dec.step > 0

\* ------------------------------------------- the bitwise error, alone

\* The values a decoded bit may have: the quarters from -1.5 to 2.5.
QuarterValues == -6..10

\* What the decoder may put out for a batch of n messages: any values
\* for the first message, values below 0 or above 1 for the others.
DecodedOutputs(n) ==
    {[i \in 1..n |-> IF i = 1 THEN r ELSE t[i]] :
        r \in [1..MessageLength -> QuarterValues],
        t \in [1..n -> [1..MessageLength -> {-2, 6}]]}

BinaryMessages ==
    UNION {[1..n -> [1..MessageLength -> {0, 1}]] : n \in BatchSizes}

\* Either method about to compute the bitwise error (line 91 or 144),
\* for every binary batch of messages and every output of the decoder.
InitBitwise ==
    /\ config = MkConfig(AllKeys, 2, 1, 3)
    /\ pc \in {"L91", "L144"}
    /\ op = IF pc = "L91" THEN "train_on_batch" ELSE "validate_on_batch"
    /\ messages \in BinaryMessages
    /\ images = [i \in 1..Len(messages) |-> <<0>>]
    /\ training = [m \in Modules |-> pc = "L91"]
    /\ params = [m \in Modules |-> 0]
    /\ grads = [m \in Modules |-> 0]
    /\ optimizer_enc_dec = NewAdam(optimizer_enc_dec_params)
    /\ optimizer_discrim = NewAdam(optimizer_discrim_params)
    /\ frame \in {[NoFrame EXCEPT !.batch_size = Len(messages),
                                  !.passes = 1,
                                  !.decoded_messages =
                                      [val |-> d, graph |-> {}, pass |-> 1]] :
                    d \in DecodedOutputs(Len(messages))}
    /\ result = NoResult
    /\ outcome = NoOutcome
    /\ calls = 1
    /\ log = <<>>
    /\ pre = LearningState
    /\ grad_src = [m \in Modules |-> {}]
    /\ last = NoCall

NextBitwise ==
    \/ train_L91
    \/ validate_L144

SpecBitwise == InitBitwise /\ [][NextBitwise]_vars

\* The bit the specification describes: q/4 clamped to [0, 1], then
\* rounded.
ClampThenRound(q) == NumpyRound(NumpyClip(q, 0, 4))

\* C9: the bitwise error a call returns lies in [0, 1]; it is 0 when
\* every decoded bit, clamped and rounded, is the true bit, and 1 when
\* every one is the flipped bit; rounding then clipping gives the same bit
\* as clamping then rounding for every decoded value, so the error is the
\* number of mismatched bits divided by N * message_length.
C9_BitwiseErrorRange ==
    pc = "ready" /\ outcome.kind = "returned" =>
        LET e == Value(result.losses, "bitwise")
            d == Flatten(frame.decoded_messages.val)
            m == Flatten(messages)
        IN  /\ RatNonNeg(e)
            /\ RatLeqOne(e)
            /\ (\A k \in 1..Len(d) : ClampThenRound(d[k]) = m[k])
                  => RatIsZero(e)
            /\ (\A k \in 1..Len(d) : ClampThenRound(d[k]) = 1 - m[k])
                  => RatIsOne(e)
            /\ \A k \in 1..Len(d) : decoded_rounded(d[k]) = ClampThenRound(d[k])
            /\ e = <<Cardinality({k \in 1..Len(d) : ClampThenRound(d[k]) # m[k]}),
                     Len(messages) * MessageLength>>

\* A call on two messages that returned a bitwise error of 1, with decoded
\* values below 0, above 1 and halfway between two integers.
C9_Witness ==
    /\ pc = "ready"
    /\ outcome.kind = "returned"
    /\ Len(messages) = 2
    /\ RatIsOne(Value(result.losses, "bitwise"))
    /\ LET d == Flatten(frame.decoded_messages.val)
       IN  /\ \E k \in 1..Len(d) : d[k] < 0
           /\ \E k \in 1..Len(d) : d[k] > 4
           /\ \E k \in 1..Len(d) : d[k] % 4 = 2

\* The places in log of the discriminator's evaluations of the encoded
\* images.
OnEncoded ==
    {i \in Places("forward", "discriminator") : log[i].input = "encoded_images"}

\* C11: in train_on_batch, once line 80 has run, the generator's
\* adversarial loss is the loss against the cover label of an evaluation
\* of the discriminator made after optimizer_discrim.step() of this call,
\* with the parameter that step left, on the encoded images not detached;
\* and the discriminator's loss on the encoded images is the loss
\* against the encoded label of an evaluation made before that step, with
\* the parameter the call began with, on the detached encoded images.
C11_FreshDiscriminatorForGenerator ==
    op = "train_on_batch" /\ pc \in {"L82", "L85", "L88", "L89", "L91"} =>
        LET d == The(Places("step", "optimizer_discrim"))
            before == {i \in OnEncoded : i < d}
            after == {i \in OnEncoded : i > d}
            stepped == log[The(Places("zero_grad", "optimizer_enc_dec"))]
                           .theta["discriminator"]
        IN  /\ Cardinality(before) = 1
            /\ Cardinality(after) = 1
            /\ log[The(after)].steps[2] = pre.optimizer_discrim.step + 1
            /\ log[The(after)].theta["discriminator"] = stepped
            /\ ~log[The(after)].detached
            /\ "encoder_decoder" \in frame.g_loss_adv.graph
            /\ frame.g_loss_adv.val =
                  BCEWithLogits(
                      DiscriminatorForward(stepped, frame.encoded_images.val), 1)
            /\ log[The(before)].steps[2] = pre.optimizer_discrim.step
            /\ log[The(before)].theta["discriminator"] =
                  pre.params["discriminator"]
            /\ log[The(before)].detached
            /\ frame.d_loss_on_encoded.graph = {"discriminator"}
            /\ frame.d_loss_on_encoded.val =
                  BCEWithLogits(
                      DiscriminatorForward(pre.params["discriminator"],
                                           frame.encoded_images.val), 0)

\* After line 80 of a call whose discriminator step moved the parameter:
\* the adversarial loss differs from what the parameter before the step
\* gives.
C11_Witness ==
    /\ op = "train_on_batch"
    /\ pc = "L82"
    /\ params["discriminator"] # pre.params["discriminator"]
    /\ frame.g_loss_adv.val #
          BCEWithLogits(
              DiscriminatorForward(pre.params["discriminator"],
                                   frame.encoded_images.val), 1)

\* C12: no step of train_on_batch from its start to the return of
\* optimizer_discrim.step() (the start of a call, lines 58-74, a raise
\* among them) changes the gradient on the encoder-decoder's parameter or
\* adds a backward pass to it; the two losses the discriminator phase
\* runs backward hold no path to the encoder-decoder, the loss on the
\* encoded images because the discriminator was given a detached copy.
C12_DiscriminatorPhaseLeavesEncDecGrad ==
    /\ [][\/ pc = "ready" /\ pc' = "L58"
          \/ op = "train_on_batch" /\ pc \in DiscriminatorPhase
          => /\ grads'["encoder_decoder"] = grads["encoder_decoder"]
             /\ grad_src'["encoder_decoder"] = grad_src["encoder_decoder"]]_vars
    /\ [](op = "train_on_batch" =>
            /\ pc \in {"L66", "L69", "L70", "L73", "L74", "L77"} =>
                  "encoder_decoder" \notin frame.d_loss_on_cover.graph
            /\ pc \in {"L73", "L74", "L77"} =>
                  /\ "encoder_decoder" \in frame.encoded_images.graph
                  /\ "encoder_decoder" \notin frame.d_loss_on_encoded.graph
                  /\ \A i \in OnEncoded : log[i].detached
            /\ pc \in {"L74", "L77"} =>
                  /\ Places("backward", "d_loss_on_encoded") # {}
                  /\ grads["encoder_decoder"] = pre.grads["encoder_decoder"])

\* Before the discriminator's step of a call that began with gradient on
\* the encoder-decoder's parameter: both backward passes have run and the
\* discriminator's gradient is no longer what the call began with.
C12_Witness ==
    /\ op = "train_on_batch"
    /\ pc = "L74"
    /\ pre.grads["encoder_decoder"] # 0
    /\ grads["discriminator"] # pre.grads["discriminator"]
    /\ grads["discriminator"] # 0

\* Whether the fraction g is wa * adv + we * enc + wd * dec.
IsWeightedSum(g, wa, adv, we, enc, wd, dec) ==
    g = RatAdd(RatAdd(RatScale(wa, adv), RatScale(we, enc)), RatScale(wd, dec))

\* The decoder's weight: the configured value, 1 when the key is absent.
DecWeight ==
    IF "dec_loss_weight" \in DOMAIN config THEN config["dec_loss_weight"] ELSE 1

\* C13: in train_on_batch and in validate_on_batch alike, the joint loss,
\* once computed, is adv_loss_weight times the adversarial loss plus
\* enc_loss_weight times the encoder's MSE plus the decoder's weight times
\* the decoder's MSE, the decoder's weight being the configured value or 1
\* when the key is absent; and a call that returned has returned that sum
\* of the three component losses it returned.
C13_JointLossFormula ==
    /\ \/ op = "train_on_batch" /\ pc \in {"L88", "L89", "L91"}
       \/ op = "validate_on_batch" /\ pc = "L144"
       => IsWeightedSum(frame.g_loss.val,
                        config["adv_loss_weight"], frame.g_loss_adv.val,
                        config["enc_loss_weight"], frame.g_loss_enc.val,
                        DecWeight, frame.g_loss_dec.val)
    /\ Returned("train_on_batch") \/ Returned("validate_on_batch") =>
          IsWeightedSum(Value(result.losses, "unet_loss"),
                        config["adv_loss_weight"],
                        Value(result.losses, "gen_adv_bce"),
                        config["enc_loss_weight"],
                        Value(result.losses, "encoder_mse"),
                        DecWeight, Value(result.losses, "decoder_mse"))

\* A validate_on_batch call that returned under a configuration without
\* dec_loss_weight, with a decoder's MSE that is not zero, after a
\* train_on_batch call that returned under it too.
C13_Witness ==
    /\ Returned("validate_on_batch")
    /\ "dec_loss_weight" \notin DOMAIN config
    /\ ~RatIsZero(Value(result.losses, "decoder_mse"))
    /\ last.op = "train_on_batch"
    /\ last.kind = "returned"

\* The forward passes of the current call so far.
Forwards == {i \in 1..Len(log) : log[i].ev = "forward"}

\* C14: whatever calls came before, every forward pass of a
\* train_on_batch call ran with both sub-models in training mode and
\* every forward pass of a validate_on_batch call with both in evaluation
\* mode; and from the start of a call on, through its return or raise and
\* until the next call, both sub-models are in the mode of that call's
\* operation: nothing restores the mode.
C14_ModeOfTheLastOperation ==
    op \in {"train_on_batch", "validate_on_batch"} =>
        /\ \A i \in Forwards :
              \A m \in Modules : log[i].training[m] = (op = "train_on_batch")
        /\ \A m \in Modules : training[m] = (op = "train_on_batch")

\* A train_on_batch call that follows a validate_on_batch call which
\* returned, after its four forward passes (the discriminator's three
\* and the encoder-decoder's one).
C14_Witness ==
    /\ op = "train_on_batch"
    /\ pc = "L82"
    /\ Cardinality(Forwards) = 4
    /\ last.op = "validate_on_batch"
    /\ last.kind = "returned"

\* The losses whose backward pass lies in log after place z and before
\* place s, one entry for each pass.
BackwardBetween(z, s) ==
    [i \in {j \in (z + 1)..(s - 1) : log[j].ev = "backward"} |-> log[i].who]

\* Whether the step of optimizer opt has, earlier in the same call, one
\* zero_grad() of opt, with between the two one backward pass of each of
\* the losses and no other.
StepAfterOwnZeroGrad(opt, losses) ==
    /\ Cardinality(Places("zero_grad", opt)) = 1
    /\ Cardinality(Places("step", opt)) = 1
    /\ LET z == The(Places("zero_grad", opt))
           s == The(Places("step", opt))
           b == BackwardBetween(z, s)
       IN  /\ z < s
           /\ {b[i] : i \in DOMAIN b} = losses
           /\ Cardinality(DOMAIN b) = Cardinality(losses)

\* C15: the gradient optimizer_discrim.step() consumes (line 74) is the
\* sum of the gradients of the two discriminator losses of this call and
\* nothing else, and the gradient optimizer_enc_dec.step() consumes
\* (line 89) is the gradient of the joint loss of this call and nothing
\* else, each step having its own zero_grad() before it in the same call
\* with only those backward passes in between; the generator's backward
\* pass does add to the discriminator's buffer, which holds it, on top of
\* the two discriminator losses, until the next call's
\* optimizer_discrim.zero_grad().
C15_NoStaleOrForeignGradient ==
    /\ op = "train_on_batch" =>
        /\ pc = "L74" =>
              /\ grad_src["discriminator"] = PhaseLosses("optimizer_discrim")
              /\ grads["discriminator"] =
                    DLossOnCoverGrad("discriminator")
                    + DLossOnEncodedGrad("discriminator")
        /\ pc \in GeneratorPhase \cup {"L91"} =>
              StepAfterOwnZeroGrad("optimizer_discrim",
                                   {"d_loss_on_cover", "d_loss_on_encoded"})
        /\ pc = "L89" =>
              /\ grad_src["encoder_decoder"] = PhaseLosses("optimizer_enc_dec")
              /\ grads["encoder_decoder"] = GLossGrad("encoder_decoder")
              /\ grad_src["discriminator"] =
                    PhaseLosses("optimizer_discrim")
                    \cup PhaseLosses("optimizer_enc_dec")
        /\ pc = "L91" =>
              /\ StepAfterOwnZeroGrad("optimizer_enc_dec", {"g_loss"})
              /\ <<calls, "g_loss">> \in grad_src["discriminator"]
    /\ Returned("train_on_batch") =>
          <<calls, "g_loss">> \in grad_src["discriminator"]

\* Before the encoder-decoder's step of a call that began with gradient
\* in both buffers, the discriminator's left there by the generator's
\* backward pass of the call before.
C15_Witness ==
    /\ op = "train_on_batch"
    /\ pc = "L89"
    /\ last.op = "train_on_batch"
    /\ last.kind = "returned"
    /\ pre.grads["encoder_decoder"] # 0
    /\ pre.grads["discriminator"] # 0
    /\ grads["encoder_decoder"] # pre.grads["encoder_decoder"]

\* C16: a train_on_batch call that raised in the generator phase, after
\* optimizer_discrim.step(), has left the discriminator's parameter and
\* optimizer_discrim as that step made them from what the call began with
\* (one more step counted, the moment updated) and the encoder-decoder's
\* parameter and optimizer_enc_dec as the call began with: nothing is
\* rolled back. If the call before was a train_on_batch that raised on
\* the same batch, the discriminator was stepped in that call too, so it
\* has now been stepped at least twice.
C16_NoRollbackAcrossPhases ==
    Raised("train_on_batch") /\ outcome.line \in {79, 80, 82, 84, 85, 88} =>
        /\ Cardinality(Places("step", "optimizer_discrim")) = 1
        /\ optimizer_discrim.step = pre.optimizer_discrim.step + 1
        /\ optimizer_discrim = AdamStepState(pre.optimizer_discrim, grads)
        /\ params["discriminator"] =
              AdamStepParams(pre.optimizer_discrim, pre.params,
                             grads)["discriminator"]
        /\ params["encoder_decoder"] = pre.params["encoder_decoder"]
        /\ optimizer_enc_dec = pre.optimizer_enc_dec
        /\ /\ last.op = "train_on_batch"
           /\ last.kind = "raised"
           /\ last.images = images
           /\ last.messages = messages
           => /\ pre.optimizer_discrim.step >= 1
              /\ optimizer_discrim.step >= 2

\* A train_on_batch call that raised at the joint loss on the batch on
\* which the call before had raised: the discriminator's parameter has
\* moved in this call and had moved before it, the encoder-decoder's has
\* never moved.
C16_Witness ==
    /\ Raised("train_on_batch")
    /\ outcome.line = 85
    /\ last.op = "train_on_batch"
    /\ last.kind = "raised"
    /\ last.images = images
    /\ last.messages = messages
    /\ params["discriminator"] # pre.params["discriminator"]
    /\ optimizer_discrim.step = 2
    /\ optimizer_enc_dec.step = 0

\* The tensors the one forward pass of the encoder-decoder gives with the
\* parameter the current call began with.
PreUpdateEncoded == EncodedImages(pre.params["encoder_decoder"], images, messages)
PreUpdateNoised ==
    NoisedImages(pre.params["encoder_decoder"], images, messages, frame.noise)
PreUpdateDecoded ==
    DecodedMessages(pre.params["encoder_decoder"], messages, frame.noise)

\* C17: of a train_on_batch call that returned, every forward pass lies
\* before optimizer_enc_dec.step() and the encoder-decoder ran once, with
\* the parameter the call began with; the three returned tensors, the
\* encoder's MSE, the decoder's MSE and the bitwise error are those of
\* that pass; the discriminator's two losses are those of the
\* discriminator's parameter the call began with; the adversarial loss is
\* that of the discriminator's parameter after its step, on the encoded
\* images of that pass, and the joint loss is the weighted sum with it:
\* no returned value is that of the stepped encoder-decoder.
C17_ReturnedValuesPredateEncDecStep ==
    Returned("train_on_batch") =>
        /\ Cardinality(Places("forward", "encoder_decoder")) = 1
        /\ Cardinality(Places("step", "optimizer_enc_dec")) = 1
        /\ \A i \in Forwards :
              /\ i < The(Places("step", "optimizer_enc_dec"))
              /\ log[i].theta["encoder_decoder"] =
                    pre.params["encoder_decoder"]
        /\ \A k \in 1..3 : result.tensors[k].pass = 1
        /\ result.tensors[1].val = PreUpdateEncoded
        /\ result.tensors[2].val = PreUpdateNoised
        /\ result.tensors[3].val = PreUpdateDecoded
        /\ Value(result.losses, "encoder_mse") =
              MSELoss(PreUpdateEncoded, images, 1)
        /\ Value(result.losses, "decoder_mse") =
              MSELoss(PreUpdateDecoded, Quarters(messages), 4)
        /\ Value(result.losses, "bitwise") =
              bitwise_avg_err(PreUpdateDecoded, messages, Len(images))
        /\ Value(result.losses, "discr_cov_bce") =
              BCEWithLogits(
                  DiscriminatorForward(pre.params["discriminator"], images), 1)
        /\ Value(result.losses, "discr_enc_bce") =
              BCEWithLogits(
                  DiscriminatorForward(pre.params["discriminator"],
                                       PreUpdateEncoded), 0)
        /\ Value(result.losses, "gen_adv_bce") =
              BCEWithLogits(
                  DiscriminatorForward(params["discriminator"],
                                       PreUpdateEncoded), 1)
        /\ IsWeightedSum(Value(result.losses, "unet_loss"),
                         config["adv_loss_weight"],
                         BCEWithLogits(
                             DiscriminatorForward(params["discriminator"],
                                                  PreUpdateEncoded), 1),
                         config["enc_loss_weight"],
                         MSELoss(PreUpdateEncoded, images, 1),
                         DecWeight,
                         MSELoss(PreUpdateDecoded, Quarters(messages), 4))

\* A train_on_batch call that returned after both steps moved their
\* parameter: the stepped encoder-decoder would give other tensors and
\* another bitwise error than those returned, and the discriminator
\* before its step another adversarial loss.
C17_Witness ==
    /\ Returned("train_on_batch")
    /\ \A m \in Modules : params[m] # pre.params[m]
    /\ result.tensors[1].val #
          EncodedImages(params["encoder_decoder"], images, messages)
    /\ Value(result.losses, "bitwise") #
          bitwise_avg_err(
              DecodedMessages(params["encoder_decoder"], messages, frame.noise),
              messages, Len(images))
    /\ Value(result.losses, "gen_adv_bce") #
          BCEWithLogits(
              DiscriminatorForward(pre.params["discriminator"],
                                   PreUpdateEncoded), 1)

====
